---- MODULE Spec2Model ----
(***************************************************************************)
(* Verification model of three pieces of the webdnn graph transpiler:      *)
(*                                                                         *)
(*   - InsertChannelModeConversion (webgl optimize rule): the operator /   *)
(*     variable graph, the two splice helpers and the optimize traversal;  *)
(*   - Pooling2D: construction-time parameter checks and the output shape  *)
(*     computed by exec;                                                   *)
(*   - WebassemblyOptimizeRule: the ordered list of sub-rules and one pass *)
(*     of the rule group over it.                                          *)
(*                                                                         *)
(* Each piece has its own specification (Spec / FairSpec, PoolSpec,        *)
(* WasmSpec); the variables of the other pieces are held constant.         *)
(***************************************************************************)
EXTENDS Integers, Sequences, FiniteSets, TLC

VARIABLES
    \* ---- channel-mode pass -------------------------------------------
    ops,            \* Graph operators: sequence of [kind, inputs, outputs]
    variables,      \* Graph variables: sequence of [mode, shape, order, texture]
    initial,        \* the graph handed to the first invocation
    pc,             \* "idle" | "loop"   (position inside optimize)
    stage,          \* "in" | "out"     (which half of the loop body is next)
    todo,           \* operators listed by the traversal and not yet visited
    flag_changed,   \* optimize's local flag
    returned,       \* one record per finished invocation
    mismatched,     \* slots found in the wrong mode when their operator was visited
    spliced,        \* slots that received a conversion in this invocation
    \* ---- Pooling2D ----------------------------------------------------
    pool,           \* the Pooling2D operator under construction / executed
    \* ---- WebassemblyOptimizeRule --------------------------------------
    wasm            \* the rule group and the pass in progress

cmvars == <<ops, variables, initial, pc, stage, todo, flag_changed, returned,
            mismatched, spliced>>
vars == <<ops, variables, initial, pc, stage, todo, flag_changed, returned,
          mismatched, spliced, pool, wasm>>

(***************************************************************************)
(* Bounds of the model.                                                    *)
(***************************************************************************)
MaxSlots == 5           \* input and output slots of an initial graph, all operators together
MaxInvocations == 3     \* invocations of optimize in one behaviour
MaxKsize == 3           \* largest kernel size given to Pooling2D
MaxStride == 3          \* largest stride given to Pooling2D
MaxPadding == 1         \* largest padding given to Pooling2D
MaxExtent == 8          \* largest H and W extent of the input of Pooling2D
MaxPasses == 3          \* passes of the rule group in one behaviour

(***************************************************************************)
(* PART 1.  InsertChannelModeConversion                                    *)
(***************************************************************************)

\* ChannelModeEnum
R == "R"
RGBA == "RGBA"
ChannelModeEnum == {R, RGBA}

\* Operator vocabulary of the graphs handed to the pass.  Sgemm, Tensordot
\* and the two conversions are the kinds optimize dispatches on; Relu,
\* ElementwiseAdd and SplitAxis stand for "every other operator" with one
\* input, two inputs and two outputs.
Kinds == {"Sgemm", "Tensordot", "ConvertRGBAtoR", "ConvertRtoRGBA",
          "Relu", "ElementwiseAdd", "SplitAxis"}

\* input slot names of each kind, in the order the slots are appended
InSeq(kind) ==
    CASE kind \in {"Sgemm", "Tensordot"} -> <<"A", "B">>
      [] kind = "ElementwiseAdd" -> <<"x0", "x1">>
      [] kind = "SplitAxis" -> <<"x">>
      [] OTHER -> <<"x0">>

\* output slot names of each kind
OutSeq(kind) ==
    CASE kind \in {"Sgemm", "Tensordot"} -> <<"C">>
      [] kind = "SplitAxis" -> <<"y0", "y1">>
      [] OTHER -> <<"y">>

\* TextureShape of a Variable on which none was set
NoTexture == <<0, 0>>

\* ---- graph queries ------------------------------------------------------

OpIds == 1..Len(ops)
VarIds == 1..Len(variables)

\* ChannelMode.get(v)
ChannelMode_get(v) == variables[v].mode

\* operators writing / reading Variable v in graph operators g
ProducersIn(g, v) == {o \in 1..Len(g) : \E n \in DOMAIN g[o].outputs : g[o].outputs[n] = v}
ConsumersIn(g, v) == {o \in 1..Len(g) : \E n \in DOMAIN g[o].inputs : g[o].inputs[n] = v}
Producers(v) == ProducersIn(ops, v)
Consumers(v) == ConsumersIn(ops, v)

\* traverse.listup_operators(graph) lists every operator of the graph,
\* producers before consumers.  The listing is taken once, before the loop:
\* todo holds the listed operators not yet visited, and the next one is the
\* smallest of those with no unvisited producer.  (An operator's inputs
\* change only during its own visit, and a conversion spliced during the
\* loop is not in the listing, so this is the order of the listing taken
\* on entry.)
listup_operators == OpIds

Ready(left) ==
    {o \in left : \A n \in DOMAIN ops[o].inputs :
                     Producers(ops[o].inputs[n]) \cap left = {}}

NextListed(left) ==
    LET ready == Ready(left)
    IN CHOOSE o \in ready : \A q \in ready : o <= q

\* ---- required modes (the isinstance dispatch of optimize) ----------------

IsMatmulOnlySgemm(kind) == kind = "Sgemm"

\* isinstance(op, (Sgemm, Tensordot))
IsMatmul(kind) == kind \in {"Sgemm", "Tensordot"}

\* target mode optimize passes to _replace_input / _replace_input_all
InputTarget(kind) ==
    CASE kind = "ConvertRGBAtoR" -> RGBA
      [] kind = "ConvertRtoRGBA" -> R
      [] OTHER -> R

OutputTargetAlwaysR(kind) == R

\* target mode optimize passes to _replace_output / _replace_output_all
OutputTarget(kind) ==
    CASE kind = "ConvertRGBAtoR" -> R
      [] kind = "ConvertRtoRGBA" -> RGBA
      [] OTHER -> R

\* ---- conversion operators ------------------------------------------------

\* mode of the Variable a conversion operator emits
EmittedMode(kind) == IF kind = "ConvertRtoRGBA" THEN RGBA ELSE R

\* _replace_input: the conversion applied to v for a given target
InputConversion(target) ==
    IF target = RGBA THEN "ConvertRtoRGBA" ELSE "ConvertRGBAtoR"

\* _replace_output: the conversion applied to v_new for a given target
OutputConversion(target) ==
    IF target = RGBA THEN "ConvertRGBAtoR" ELSE "ConvertRtoRGBA"

\* a conversion operator with input x0 and output y
ConversionOp(kind, x0, y) ==
    [kind |-> kind, inputs |-> [n \in {"x0"} |-> x0], outputs |-> [n \in {"y"} |-> y]]

\* ---- the two splices -----------------------------------------------------

\* _replace_input(op, var_name, target) returning `changed`
\*    before)  v -{op}-          after)  v -{conversion}- v' -{op}-
_replace_input(op, var_name, target, changed) ==
    LET v == ops[op].inputs[var_name]
        v_new == Len(variables) + 1
        kind == InputConversion(target)
    IN IF ChannelMode_get(v) = target
       THEN /\ changed = FALSE
            /\ UNCHANGED <<ops, variables>>
       ELSE /\ changed = TRUE
            \* convert_*(v): a new Variable of v's shape and order in the
            \* mode the conversion emits; TextureShape copied from v
            /\ variables' = Append(variables,
                                   [mode |-> EmittedMode(kind),
                                    shape |-> variables[v].shape,
                                    order |-> variables[v].order,
                                    texture |-> variables[v].texture])
            \* op.replace_input(v, v_new)
            /\ ops' = Append([ops EXCEPT ![op].inputs[var_name] = v_new],
                             ConversionOp(kind, v, v_new))

\* a splice that keeps op writing v and moves the readers of v to v_new
_replace_output_moving_readers(op, var_name, target, changed) ==
    LET v == ops[op].outputs[var_name]
        v_new == Len(variables) + 1
        kind == OutputConversion(target)
    IN IF ChannelMode_get(v) = target
       THEN /\ changed = FALSE
            /\ UNCHANGED <<ops, variables>>
       ELSE /\ changed = TRUE
            /\ variables' = Append([variables EXCEPT ![v].mode = target],
                                   [mode |-> EmittedMode(kind),
                                    shape |-> variables[v].shape,
                                    order |-> variables[v].order,
                                    texture |-> NoTexture])
            /\ ops' = Append([o \in OpIds |->
                                [ops[o] EXCEPT !.inputs =
                                    [n \in DOMAIN ops[o].inputs |->
                                        IF ops[o].inputs[n] = v THEN v_new
                                        ELSE ops[o].inputs[n]]]],
                             ConversionOp(kind, v, v_new))

\* _replace_output(op, var_name, target) returning `changed`
\*    before)  -{op}- v          after)  -{op}- v' -{conversion}- v
_replace_output(op, var_name, target, changed) ==
    LET v == ops[op].outputs[var_name]
        v_new == Len(variables) + 1
        kind == OutputConversion(target)
    IN IF ChannelMode_get(v) = target
       THEN /\ changed = FALSE
            /\ UNCHANGED <<ops, variables>>
       ELSE /\ changed = TRUE
            \* v_new = Variable(v.shape, v.order); ChannelMode.set(v_new, target)
            /\ variables' = Append(variables,
                                   [mode |-> target,
                                    shape |-> variables[v].shape,
                                    order |-> variables[v].order,
                                    texture |-> NoTexture])
            \* op.replace_output(v, v_new);
            \* convert_*(v_new).change_order(v.order).replace(v): the
            \* conversion's own output is dropped and v takes its place
            /\ ops' = Append([ops EXCEPT ![op].outputs[var_name] = v_new],
                             ConversionOp(kind, v_new, v))

\* slots of op whose Variable is not in the target mode
MismatchedInputs(op, target) ==
    {n \in DOMAIN ops[op].inputs : ChannelMode_get(ops[op].inputs[n]) # target}
MismatchedOutputs(op, target) ==
    {n \in DOMAIN ops[op].outputs : ChannelMode_get(ops[op].outputs[n]) # target}

\* _replace_input_all: any(...) over a generator stops at the first call
\* that returns True; calls that return False change nothing.  The order
\* of op.inputs.keys() is left open.
_replace_input_all(op, target, changed) ==
    IF MismatchedInputs(op, target) = {}
    THEN changed = FALSE /\ UNCHANGED <<ops, variables>>
    ELSE \E n \in MismatchedInputs(op, target) : _replace_input(op, n, target, changed)

\* _replace_output_all: as _replace_input_all, over op.outputs.keys()
_replace_output_all(op, target, changed) ==
    IF MismatchedOutputs(op, target) = {}
    THEN changed = FALSE /\ UNCHANGED <<ops, variables>>
    ELSE \E n \in MismatchedOutputs(op, target) : _replace_output(op, n, target, changed)

FlagAssign(flag, changed) == changed

\* flag_changed |= ...
FlagOr(flag, changed) == flag \/ changed

\* ---- optimize ------------------------------------------------------------

\* the input half of the loop body for one operator (lines 78-90)
optimize_inputs(op, changed) ==
    LET kind == ops[op].kind
    IN IF IsMatmul(kind)
       THEN changed = FALSE /\ UNCHANGED <<ops, variables>>          \* pass
       ELSE IF kind \in {"ConvertRGBAtoR", "ConvertRtoRGBA"}
       THEN _replace_input(op, "x0", InputTarget(kind), changed)
       ELSE _replace_input_all(op, InputTarget(kind), changed)

\* the output half of the loop body for one operator (lines 78-91)
optimize_outputs(op, changed) ==
    LET kind == ops[op].kind
    IN IF IsMatmul(kind)
       THEN changed = FALSE /\ UNCHANGED <<ops, variables>>          \* pass
       ELSE IF kind \in {"ConvertRGBAtoR", "ConvertRtoRGBA"}
       THEN _replace_output(op, "y", OutputTarget(kind), changed)
       ELSE _replace_output_all(op, OutputTarget(kind), changed)

\* optimize is entered: flag_changed = False, the traversal lists the operators
Begin ==
    /\ pc = "idle"
    /\ Len(returned) < MaxInvocations
    /\ pc' = "loop"
    /\ stage' = "in"
    /\ todo' = listup_operators
    /\ flag_changed' = FALSE
    /\ mismatched' = {}
    /\ spliced' = {}
    /\ UNCHANGED <<ops, variables, initial, returned, pool, wasm>>

\* the loop body on the next listed operator, input slots
VisitInputs ==
    /\ pc = "loop" /\ stage = "in" /\ todo # {}
    /\ LET op == NextListed(todo)
           kind == ops[op].kind
       IN /\ \E changed \in BOOLEAN :
                /\ optimize_inputs(op, changed)
                /\ flag_changed' = FlagOr(flag_changed, changed)
          /\ mismatched' = mismatched \cup
                (IF IsMatmul(kind) THEN {}
                 ELSE {[op |-> op, dir |-> "in", name |-> n] :
                          n \in MismatchedInputs(op, InputTarget(kind))})
          /\ spliced' = spliced \cup
                {[op |-> op, dir |-> "in", name |-> n] :
                    n \in {m \in DOMAIN ops[op].inputs :
                              ops'[op].inputs[m] # ops[op].inputs[m]}}
    /\ stage' = "out"
    /\ UNCHANGED <<initial, pc, todo, returned, pool, wasm>>

\* the loop body on the same operator, output slots; then the next operator
VisitOutputs ==
    /\ pc = "loop" /\ stage = "out" /\ todo # {}
    /\ LET op == NextListed(todo)
           kind == ops[op].kind
       IN /\ \E changed \in BOOLEAN :
                /\ optimize_outputs(op, changed)
                /\ flag_changed' = FlagOr(flag_changed, changed)
          /\ mismatched' = mismatched \cup
                (IF IsMatmul(kind) THEN {}
                 ELSE {[op |-> op, dir |-> "out", name |-> n] :
                          n \in MismatchedOutputs(op, OutputTarget(kind))})
          /\ spliced' = spliced \cup
                {[op |-> op, dir |-> "out", name |-> n] :
                    n \in {m \in DOMAIN ops[op].outputs :
                              ops'[op].outputs[m] # ops[op].outputs[m]}}
          /\ todo' = todo \ {op}
    /\ stage' = "in"
    /\ UNCHANGED <<initial, pc, returned, pool, wasm>>

\* return graph, flag_changed
Return ==
    /\ pc = "loop" /\ todo = {}
    /\ returned' = Append(returned, [changed |-> flag_changed,
                                     operators |-> Len(ops)])
    /\ pc' = "idle"
    /\ UNCHANGED <<ops, variables, initial, stage, todo, flag_changed,
                   mismatched, spliced, pool, wasm>>

\* ---- initial graphs ------------------------------------------------------

Index(seq, x) == CHOOSE i \in 1..Len(seq) : seq[i] = x
Range(seq) == {seq[i] : i \in 1..Len(seq)}

\* One more operator of `kind` on graph g = [ops, nv].  src maps each input
\* slot to an existing Variable or to 0, a new graph input.
AddOp(g, kind, src) ==
    LET ins == InSeq(kind)
        outs == OutSeq(kind)
        fresh == {i \in 1..Len(ins) : src[ins[i]] = 0}
        in_var(i) == IF src[ins[i]] # 0 THEN src[ins[i]]
                     ELSE g.nv + Cardinality({j \in fresh : j <= i})
        nin == g.nv + Cardinality(fresh)
    IN [ops |-> Append(g.ops,
                       [kind |-> kind,
                        inputs |-> [n \in Range(ins) |-> in_var(Index(ins, n))],
                        outputs |-> [n \in Range(outs) |-> nin + Index(outs, n)]]),
        nv |-> nin + Len(outs)]

\* the ways to wire the inputs of a new operator: distinct Variables per slot
Sources(g, kind) ==
    {src \in [Range(InSeq(kind)) -> 0..g.nv] :
        \A m, n \in Range(InSeq(kind)) : (m # n /\ src[m] # 0) => src[m] # src[n]}

\* number of slots of the operators g
RECURSIVE Slots(_)
Slots(g) ==
    IF g = <<>> THEN 0
    ELSE Cardinality(DOMAIN Head(g).inputs) + Cardinality(DOMAIN Head(g).outputs)
         + Slots(Tail(g))

\* the graphs of n operators with at most MaxSlots slots
RECURSIVE Graphs(_)
Graphs(n) ==
    IF n = 0 THEN {[ops |-> <<>>, nv |-> 0]}
    ELSE {h \in UNION {{AddOp(g, kind, src) : src \in Sources(g, kind)} :
                          <<g, kind>> \in Graphs(n - 1) \X Kinds} :
             Slots(h.ops) <= MaxSlots}

\* a Variable of the initial graph
InitialVariable(v, mode) ==
    [mode |-> mode,
     shape |-> v,
     order |-> IF v % 2 = 0 THEN "NHWC" ELSE "NCHW",
     texture |-> <<v, 1>>]

PoolIdle == [pc |-> "none"]
WasmIdle == [pc |-> "none"]

Init ==
    /\ \E n \in 1..(MaxSlots \div 2) : \E g \in Graphs(n) : \E modes \in [1..g.nv -> ChannelModeEnum] :
          /\ ops = g.ops
          /\ variables = [v \in 1..g.nv |-> InitialVariable(v, modes[v])]
          /\ initial = [ops |-> g.ops, modes |-> modes]
    /\ pc = "idle"
    /\ stage = "in"
    /\ todo = {}
    /\ flag_changed = FALSE
    /\ returned = <<>>
    /\ mismatched = {}
    /\ spliced = {}
    /\ pool = PoolIdle
    /\ wasm = WasmIdle

Next == Begin \/ VisitInputs \/ VisitOutputs \/ Return

Spec == Init /\ [][Next]_vars

\* the traversal loop always runs on and the driver always calls again
FairSpec == Spec /\ WF_vars(Next)

(***************************************************************************)
(* Properties of the channel-mode pass                                     *)
(***************************************************************************)

ConversionKinds == {"ConvertRGBAtoR", "ConvertRtoRGBA"}
MatmulKinds == {"Sgemm", "Tensordot"}

\* the last finished invocation returned changed = false
AtFixedPoint ==
    pc = "idle" /\ returned # <<>> /\ ~returned[Len(returned)].changed

ModeOf(v) == variables[v].mode
AllInputsIn(o, mode) == \A n \in DOMAIN ops[o].inputs : ModeOf(ops[o].inputs[n]) = mode
AllOutputsIn(o, mode) == \A n \in DOMAIN ops[o].outputs : ModeOf(ops[o].outputs[n]) = mode

\* operator o has its required mode on every slot
SatisfiesRequiredModes(o) ==
    /\ ops[o].kind = "ConvertRGBAtoR" =>
          ModeOf(ops[o].inputs["x0"]) = RGBA /\ ModeOf(ops[o].outputs["y"]) = R
    /\ ops[o].kind = "ConvertRtoRGBA" =>
          ModeOf(ops[o].inputs["x0"]) = R /\ ModeOf(ops[o].outputs["y"]) = RGBA
    /\ ops[o].kind \notin (MatmulKinds \cup ConversionKinds) =>
          AllInputsIn(o, R) /\ AllOutputsIn(o, R)

\* C1: whenever an invocation of optimize has returned changed = false,
\* every operator of the graph has its required channel mode on every slot:
\* ConvertRGBAtoR reads RGBA and writes R, ConvertRtoRGBA reads R and writes
\* RGBA, every operator other than Sgemm, Tensordot and the conversions
\* reads and writes R only.
C1_ChannelModeClosure ==
    AtFixedPoint => \A o \in OpIds : SatisfiesRequiredModes(o)

\* C1 witness: a fixed point of a graph that holds a non-matmul,
\* non-conversion operator and into which the pass spliced a conversion.
C1_Witness ==
    /\ AtFixedPoint
    /\ Len(ops) > Len(initial.ops)
    /\ \E o \in OpIds : ops[o].kind \notin (MatmulKinds \cup ConversionKinds)

\* a ConvertRtoRGBA feeding a ConvertRGBAtoR directly, or the reverse, in
\* the operators g
AdjacentInversePairIn(g) ==
    \E a, b \in 1..Len(g) :
        /\ g[a].kind \in ConversionKinds
        /\ g[b].kind \in ConversionKinds
        /\ g[a].kind # g[b].kind
        /\ g[a].outputs["y"] = g[b].inputs["x0"]

\* C2 as stated: at a fixed point no two adjacent conversion operators of
\* inverse kind remain, whatever the initial graph.
C2_NoAdjacentInversePair ==
    AtFixedPoint => ~AdjacentInversePairIn(ops)

\* the initial graph is one in which the pass splices only next to a
\* matmul operator or a graph input: it has no adjacent inverse pair, its
\* conversion operators already have their required modes, and every
\* RGBA Variable read by a non-matmul operator is a graph input or the
\* output of Sgemm / Tensordot.
InitialGraphIsPlain ==
    LET g == initial.ops
        m == initial.modes
    IN /\ ~AdjacentInversePairIn(g)
       /\ \A o \in 1..Len(g) :
             /\ g[o].kind = "ConvertRGBAtoR" =>
                   m[g[o].inputs["x0"]] = RGBA /\ m[g[o].outputs["y"]] = R
             /\ g[o].kind = "ConvertRtoRGBA" =>
                   m[g[o].inputs["x0"]] = R /\ m[g[o].outputs["y"]] = RGBA
       /\ \A v \in 1..Len(m) :
             (m[v] = RGBA /\ \E c \in ConsumersIn(g, v) : g[c].kind \notin MatmulKinds)
                => \A q \in ProducersIn(g, v) : g[q].kind \in MatmulKinds

\* C2 amended: at a fixed point the graph has no adjacent pair of inverse
\* conversion operators exactly when the initial graph had none, its
\* conversion operators already had their required modes and every RGBA
\* Variable read by a non-matmul operator was a graph input or the output
\* of Sgemm / Tensordot.  The pass never merges or removes a conversion.
C2_NoPairIffPlainInitialGraph ==
    AtFixedPoint => (~AdjacentInversePairIn(ops) <=> InitialGraphIsPlain)

\* C2 witness: a fixed point of a plain initial graph into which the pass
\* spliced a conversion, and which has no adjacent inverse pair.
C2_Witness ==
    /\ AtFixedPoint
    /\ InitialGraphIsPlain
    /\ Len(ops) > Len(initial.ops)
    /\ ~AdjacentInversePairIn(ops)

\* an edge of the initial graph on which an RGBA Variable feeds a slot that
\* requires R
InitialRGBAtoREdges ==
    {e \in [op : 1..Len(initial.ops), name : {"x", "x0", "x1"}] :
        /\ e.name \in DOMAIN initial.ops[e.op].inputs
        /\ initial.ops[e.op].kind \notin (MatmulKinds \cup {"ConvertRGBAtoR"})
        /\ initial.modes[initial.ops[e.op].inputs[e.name]] = RGBA}

\* C3 as stated: the first invocation inserts exactly one ConvertRGBAtoR
\* on every edge where an RGBA Variable feeds a slot requiring R, and the
\* invocation that follows it inserts nothing and returns changed = false.
C3_SecondInvocationIsNoOp ==
    /\ Len(returned) >= 1 =>
          \A e \in InitialRGBAtoREdges :
              Cardinality({c \in (Len(initial.ops) + 1)..returned[1].operators :
                              /\ ops[c].kind = "ConvertRGBAtoR"
                              /\ ops[c].inputs["x0"] = initial.ops[e.op].inputs[e.name]
                              /\ ops[c].outputs["y"] = ops[e.op].inputs[e.name]}) = 1
    /\ Len(returned) >= 2 =>
          /\ ~returned[2].changed
          /\ returned[2].operators = returned[1].operators

\* C8 as stated: when an invocation returns, every slot that was in the
\* wrong mode when its operator was visited has received a conversion in
\* that invocation.
C8_EveryMismatchedSlotSpliced ==
    (pc = "idle" /\ returned # <<>>) => mismatched \subseteq spliced

\* C9: a splice on an output slot leaves the original output Variable v as
\* it was (mode, shape, Order), leaves every other operator's slots as they
\* were (so every reader of v still reads v in the same slot), makes the new
\* conversion operator the one producer of v, and makes the operator write
\* a fresh Variable of the target mode, with v's shape and Order, under the
\* same slot name.
C9_ReplaceOutputPreservesVariable ==
    [][(pc = "loop" /\ stage = "out" /\ Len(ops') > Len(ops)) =>
        LET op == NextListed(todo)
            names == {n \in DOMAIN ops[op].outputs : ops'[op].outputs[n] # ops[op].outputs[n]}
            conv == Len(ops')
        IN /\ Cardinality(names) = 1
           /\ Len(ops') = Len(ops) + 1
           /\ Len(variables') = Len(variables) + 1
           /\ \A n \in names :
                LET v == ops[op].outputs[n]
                    v_new == ops'[op].outputs[n]
                IN /\ v_new = Len(variables')
                   /\ variables'[v_new].mode = (IF ops[op].kind = "ConvertRtoRGBA" THEN RGBA ELSE R)
                   /\ variables'[v_new].shape = variables[v].shape
                   /\ variables'[v_new].order = variables[v].order
                   /\ ops'[conv].kind \in ConversionKinds
                   /\ ops'[conv].inputs["x0"] = v_new
                   /\ ProducersIn(ops', v) = {conv}
                   /\ ConsumersIn(ops', v) = ConsumersIn(ops, v)
           /\ \A w \in VarIds : variables'[w] = variables[w]
           /\ DOMAIN ops'[op].outputs = DOMAIN ops[op].outputs
           /\ ops'[op].inputs = ops[op].inputs
           /\ ops'[op].kind = ops[op].kind
           /\ \A o \in OpIds \ {op} : ops'[o] = ops[o]
    ]_vars

\* C9 witness: an output splice has happened on an operator whose original
\* output Variable has a reader.
C9_Witness ==
    \E s \in spliced :
        /\ s.dir = "out"
        /\ s.op <= Len(initial.ops)
        /\ ConsumersIn(initial.ops, initial.ops[s.op].outputs[s.name]) # {}
        /\ Consumers(initial.ops[s.op].outputs[s.name]) # {}

\* C10: repeated invocation reaches an invocation that returns
\* changed = false.
C10_FixedPointReached ==
    <>(\E i \in 1..Len(returned) : ~returned[i].changed)

\* C10 witness: an invocation that returned changed = true was followed by
\* one that returned changed = false.
C10_Witness ==
    /\ Len(returned) >= 2
    /\ returned[1].changed
    /\ ~returned[Len(returned)].changed

(***************************************************************************)
(* PART 2.  Pooling2D                                                      *)
(***************************************************************************)

\* Axis
Axes == {"N", "H", "W", "C"}

\* Order: the sequence of axes of a Variable
OrderNHWC == <<"N", "H", "W", "C">>
OrderNCHW == <<"N", "C", "H", "W">>
OrderHWNC == <<"H", "W", "N", "C">>
Orders == {OrderNHWC, OrderNCHW, OrderHWNC}

\* batch and channel extents of the inputs
BatchExtent == 2
ChannelExtent == 5

\* Variable(shape, order)
Variable(shape, order) == [shape |-> shape, order |-> order]

\* Variable.shape_dict
shape_dict(v) == [a \in Range(v.order) |-> v.shape[Index(v.order, a)]]

\* Variable.change_order(order): same extents per axis, laid out in `order`
change_order(v, order) ==
    [shape |-> [i \in 1..Len(order) |-> shape_dict(v)[order[i]]], order |-> order]

\* IntOrTuple: an int n is <<n>>, a tuple (a, b) is <<a, b>>
IntOrTuples(lo, hi) == {<<n>> : n \in lo..hi} \cup ((lo..hi) \X (lo..hi))

\* to_tuple: an int is repeated on both axes, a tuple is kept
to_tuple(x) == IF Len(x) = 1 THEN <<x[1], x[1]>> ELSE x

ConstraintsHoldAxis0Twice(parameters) ==
    /\ parameters.ksize[1] >= parameters.stride[1]
    /\ parameters.ksize[1] >= parameters.stride[1]

\* the two assertions of __init__
ConstraintsHold(parameters) ==
    /\ parameters.ksize[1] >= parameters.stride[1]
    /\ parameters.ksize[2] >= parameters.stride[2]

OutputExtentFloor(extent, padding, stride, ksize) ==
    (extent + 2 * padding - ksize) \div stride + 1

\* exec: H2 and W2 (Python // is floor division, as \div is)
OutputExtent(extent, padding, stride, ksize) ==
    (extent + 2 * padding + stride - ksize - 1) \div stride + 1

EdgeIgnoredBothAxes(x_shape_dict, parameters) ==
    /\ (x_shape_dict["H"] + 2 * parameters.padding[1] - parameters.ksize[1])
          % parameters.stride[1] # 0
    /\ (x_shape_dict["W"] + 2 * parameters.padding[2] - parameters.ksize[2])
          % parameters.stride[2] # 0

\* exec: the condition of console.warning (Python % with a positive
\* divisor is non-negative, as % is)
EdgeIgnored(x_shape_dict, parameters) ==
    \/ (x_shape_dict["H"] + 2 * parameters.padding[1] - parameters.ksize[1])
          % parameters.stride[1] # 0
    \/ (x_shape_dict["W"] + 2 * parameters.padding[2] - parameters.ksize[2])
          % parameters.stride[2] # 0

\* exec: the output Variable
exec_y(x, parameters) ==
    LET x_shape_dict == shape_dict(x)
        N == x_shape_dict["N"]
        H2 == OutputExtent(x_shape_dict["H"], parameters.padding[1],
                           parameters.stride[1], parameters.ksize[1])
        W2 == OutputExtent(x_shape_dict["W"], parameters.padding[2],
                           parameters.stride[2], parameters.ksize[2])
        C2 == x_shape_dict["C"]
    IN change_order(Variable(<<N, H2, W2, C2>>, OrderNHWC), x.order)

\* a Pooling2D on which __init__ has not run yet
PoolNew ==
    [pc |-> "new",
     parameters |-> [ksize |-> <<0, 0>>, stride |-> <<0, 0>>, padding |-> <<0, 0>>],
     inputs |-> <<>>, outputs |-> <<>>, attributes |-> {}, warnings |-> 0]

\* Pooling2D.__init__(name, ksize, stride, padding): the parameters are
\* stored, then the assertions run; a failed assertion raises out of __init__
Pooling2D_init(ksize, stride, padding) ==
    /\ pool.pc = "new"
    /\ LET parameters == [ksize |-> to_tuple(ksize),
                          stride |-> to_tuple(stride),
                          padding |-> to_tuple(padding)]
       IN pool' = [pool EXCEPT !.parameters = parameters,
                               !.pc = IF ConstraintsHold(parameters)
                                      THEN "constructed" ELSE "init_failed"]
    /\ UNCHANGED cmvars
    /\ UNCHANGED wasm

\* Pooling2D.__call__(x): append_input("x", x), then exec
Pooling2D_call(x) ==
    /\ pool.pc = "constructed"
    /\ LET y == exec_y(x, pool.parameters)
       IN pool' = [pool EXCEPT
                     !.inputs = [n \in {"x"} |-> x],
                     !.warnings = IF EdgeIgnored(shape_dict(x), pool.parameters)
                                  THEN @ + 1 ELSE @,
                     !.outputs = [n \in {"y"} |-> y],
                     !.attributes = {a \in Range(x.order) : a # "H" /\ a # "W"},
                     !.pc = "called"]
    /\ UNCHANGED cmvars
    /\ UNCHANGED wasm

\* the parameters and inputs given to Pooling2D: kernel and stride at
\* least 1, padding at least 0
Construct ==
    \E ksize \in IntOrTuples(1, MaxKsize), stride \in IntOrTuples(1, MaxStride),
       padding \in IntOrTuples(0, MaxPadding) :
        Pooling2D_init(ksize, stride, padding)

Call ==
    \E order \in Orders, H \in 1..MaxExtent, W \in 1..MaxExtent :
        Pooling2D_call(change_order(
            Variable(<<BatchExtent, H, W, ChannelExtent>>, OrderNHWC), order))

\* the channel-mode pass at rest
ChannelModeIdle ==
    /\ ops = <<>>
    /\ variables = <<>>
    /\ initial = [ops |-> <<>>, modes |-> <<>>]
    /\ pc = "none"
    /\ stage = "in"
    /\ todo = {}
    /\ flag_changed = FALSE
    /\ returned = <<>>
    /\ mismatched = {}
    /\ spliced = {}

PoolInit == ChannelModeIdle /\ pool = PoolNew /\ wasm = WasmIdle

PoolNext == Construct \/ Call

PoolSpec == PoolInit /\ [][PoolNext]_vars

(***************************************************************************)
(* Properties of Pooling2D                                                 *)
(***************************************************************************)

PoolX == pool.inputs["x"]
PoolY == pool.outputs["y"]
ExtentOf(v, axis) == v.shape[CHOOSE i \in 1..Len(v.order) : v.order[i] = axis]

\* ksize 3, stride 2, padding 0 on an 8 x 8 input, executed
PoolExample ==
    /\ pool.pc = "called"
    /\ pool.parameters = [ksize |-> <<3, 3>>, stride |-> <<2, 2>>, padding |-> <<0, 0>>]
    /\ ExtentOf(PoolX, "H") = 8
    /\ ExtentOf(PoolX, "W") = 8

\* `out` is the number of windows of size ksize, stride apart, needed to
\* reach the end of the padded extent: one more than the quotient of
\* (extent + 2*padding - ksize) by stride, rounded up
CoversExtent(out, extent, padding, stride, ksize) ==
    /\ (out - 1) * stride >= extent + 2 * padding - ksize
    /\ (out - 2) * stride < extent + 2 * padding - ksize

\* the output extents follow the formula on H and W, with N and C copied
PoolShapeByFormula ==
    pool.pc = "called" =>
        /\ ExtentOf(PoolY, "H") = (ExtentOf(PoolX, "H") + 2 * pool.parameters.padding[1]
                                     + pool.parameters.stride[1] - pool.parameters.ksize[1] - 1)
                                  \div pool.parameters.stride[1] + 1
        /\ ExtentOf(PoolY, "W") = (ExtentOf(PoolX, "W") + 2 * pool.parameters.padding[2]
                                     + pool.parameters.stride[2] - pool.parameters.ksize[2] - 1)
                                  \div pool.parameters.stride[2] + 1
        /\ CoversExtent(ExtentOf(PoolY, "H"), ExtentOf(PoolX, "H"),
                        pool.parameters.padding[1], pool.parameters.stride[1],
                        pool.parameters.ksize[1])
        /\ CoversExtent(ExtentOf(PoolY, "W"), ExtentOf(PoolX, "W"),
                        pool.parameters.padding[2], pool.parameters.stride[2],
                        pool.parameters.ksize[2])
        /\ ExtentOf(PoolY, "N") = ExtentOf(PoolX, "N")
        /\ ExtentOf(PoolY, "C") = ExtentOf(PoolX, "C")

\* C4 as stated: ksize 3, stride 2, padding 0 on an 8 x 8 input gives a
\* 3 x 3 output with the warning, and the output extents follow the formula.
C4_ExampleGivesThree ==
    /\ PoolExample =>
          ExtentOf(PoolY, "H") = 3 /\ ExtentOf(PoolY, "W") = 3 /\ pool.warnings = 1
    /\ PoolShapeByFormula

\* C4 amended: ksize 3, stride 2, padding 0 on an 8 x 8 input gives a
\* 4 x 4 output, (8 + 0 + 2 - 3 - 1) // 2 + 1 = 4, with the warning; in
\* general each spatial output extent is
\* (extent + 2*padding + stride - ksize - 1) // stride + 1 and the N and C
\* extents are those of the input.
C4_ExampleGivesFour ==
    /\ PoolExample =>
          ExtentOf(PoolY, "H") = 4 /\ ExtentOf(PoolY, "W") = 4 /\ pool.warnings = 1
    /\ PoolShapeByFormula

\* C4 witness: the example has been executed.
C4_Witness == PoolExample /\ pool.outputs # <<>>

\* C5: a Pooling2D with ksize < stride on axis 0 or on axis 1 fails in
\* __init__, with no input attached and no output created, and does not
\* reach exec; one with ksize >= stride on both axes is constructed.
C5_KsizeBelowStrideFailsInInit ==
    pool.pc \notin {"none", "new"} =>
        LET below == \/ pool.parameters.ksize[1] < pool.parameters.stride[1]
                     \/ pool.parameters.ksize[2] < pool.parameters.stride[2]
        IN /\ below => (pool.pc = "init_failed" /\ pool.inputs = <<>> /\ pool.outputs = <<>>)
           /\ ~below => pool.pc \in {"constructed", "called"}

\* C5 witness: construction failed on axis 1 alone.
C5_Witness ==
    /\ pool.pc = "init_failed"
    /\ pool.parameters.ksize[1] >= pool.parameters.stride[1]
    /\ pool.parameters.ksize[2] < pool.parameters.stride[2]

\* stride divides extent + 2*padding - ksize
Divides(stride, extent, padding, ksize) ==
    \E q \in -(MaxKsize + MaxExtent)..(MaxExtent + 2 * MaxPadding) :
        q * stride = extent + 2 * padding - ksize

\* C6: exec warns exactly when stride does not divide
\* (extent + 2*padding - ksize) on H or on W, warns once, and with or
\* without the warning appends y with the formula's shape and the Order of x.
C6_WarningIsAdvisory ==
    pool.pc = "called" =>
        LET truncated ==
              \/ ~Divides(pool.parameters.stride[1], ExtentOf(PoolX, "H"),
                          pool.parameters.padding[1], pool.parameters.ksize[1])
              \/ ~Divides(pool.parameters.stride[2], ExtentOf(PoolX, "W"),
                          pool.parameters.padding[2], pool.parameters.ksize[2])
        IN /\ pool.warnings = (IF truncated THEN 1 ELSE 0)
           /\ DOMAIN pool.outputs = {"y"}
           /\ PoolY.order = PoolX.order
           /\ CoversExtent(ExtentOf(PoolY, "H"), ExtentOf(PoolX, "H"),
                           pool.parameters.padding[1], pool.parameters.stride[1],
                           pool.parameters.ksize[1])
           /\ CoversExtent(ExtentOf(PoolY, "W"), ExtentOf(PoolX, "W"),
                           pool.parameters.padding[2], pool.parameters.stride[2],
                           pool.parameters.ksize[2])
           /\ ExtentOf(PoolY, "N") = ExtentOf(PoolX, "N")
           /\ ExtentOf(PoolY, "C") = ExtentOf(PoolX, "C")

\* C6 witness: exec warned because of the W axis alone, on an input that is
\* not in NHWC order, and appended y.
C6_Witness ==
    /\ pool.pc = "called"
    /\ pool.warnings = 1
    /\ DOMAIN pool.outputs = {"y"}
    /\ PoolX.order # OrderNHWC
    /\ Divides(pool.parameters.stride[1], ExtentOf(PoolX, "H"),
               pool.parameters.padding[1], pool.parameters.ksize[1])

(***************************************************************************)
(* PART 3.  WebassemblyOptimizeRule                                        *)
(***************************************************************************)

sub_rules_inplace_before_fusion(DEBUG) ==
    << "InsertTranspose",
       "ReplaceConvolutionByIm2Col", "MergeSgemmAndElementwiseMul", "ConstantFolding",
       "ReplaceDeconvolutionByCol2Im", "MergeSgemmAndElementwiseMul", "ConstantFolding",
       "ReplaceLinearBySgemm", "MergeSgemmAndElementwiseMul", "ConstantFolding",
       "UseEigen", "UpdateInplaceAttribute", "ElementwiseKernelFusion" >>
    \o (IF DEBUG THEN << "DumpGraph" >> ELSE << >>)

\* WebassemblyOptimizeRule.__init__: the list handed to OptimizeRuleGroup
sub_rules(DEBUG) ==
    << "InsertTranspose",
       "ReplaceConvolutionByIm2Col", "MergeSgemmAndElementwiseMul", "ConstantFolding",
       "ReplaceDeconvolutionByCol2Im", "MergeSgemmAndElementwiseMul", "ConstantFolding",
       "ReplaceLinearBySgemm", "MergeSgemmAndElementwiseMul", "ConstantFolding",
       "UseEigen", "ElementwiseKernelFusion", "UpdateInplaceAttribute" >>
    \o (IF DEBUG THEN << "DumpGraph" >> ELSE << >>)

\* a rule group not constructed yet
WasmNew ==
    [pc |-> "new", DEBUG |-> FALSE, sub_rules |-> <<>>, index |-> 0,
     applied |-> <<>>, changed |-> FALSE, passes |-> 0]

\* WebassemblyOptimizeRule(): flags.DEBUG is read once, in __init__
WasmConstruct ==
    /\ wasm.pc = "new"
    /\ \E DEBUG \in BOOLEAN :
          wasm' = [wasm EXCEPT !.pc = "idle", !.DEBUG = DEBUG,
                               !.sub_rules = sub_rules(DEBUG)]
    /\ UNCHANGED cmvars
    /\ UNCHANGED pool

\* the driver invokes the group: first, and again after a pass that
\* reported a change
GroupEnter ==
    /\ wasm.pc = "idle"
    /\ wasm.passes < MaxPasses
    /\ wasm.passes = 0 \/ wasm.changed
    /\ wasm' = [wasm EXCEPT !.pc = "pass", !.index = 0, !.applied = <<>>,
                            !.changed = FALSE, !.passes = @ + 1]
    /\ UNCHANGED cmvars
    /\ UNCHANGED pool

\* the group applies its next sub-rule and ORs the flag it returns
ApplySubRule ==
    /\ wasm.pc = "pass"
    /\ wasm.index < Len(wasm.sub_rules)
    /\ \E changed \in BOOLEAN :
          wasm' = [wasm EXCEPT !.index = @ + 1,
                               !.applied = Append(@, wasm.sub_rules[wasm.index + 1]),
                               !.changed = @ \/ changed]
    /\ UNCHANGED cmvars
    /\ UNCHANGED pool

\* the group returns (graph, changed)
GroupReturn ==
    /\ wasm.pc = "pass"
    /\ wasm.index = Len(wasm.sub_rules)
    /\ wasm' = [wasm EXCEPT !.pc = "idle"]
    /\ UNCHANGED cmvars
    /\ UNCHANGED pool

WasmInit == ChannelModeIdle /\ pool = PoolIdle /\ wasm = WasmNew

WasmNext == WasmConstruct \/ GroupEnter \/ ApplySubRule \/ GroupReturn

WasmSpec == WasmInit /\ [][WasmNext]_vars

(***************************************************************************)
(* Properties of WebassemblyOptimizeRule                                   *)
(***************************************************************************)

FusionRules == {"MergeSgemmAndElementwiseMul", "ElementwiseKernelFusion"}
LoweringRules == {"ReplaceConvolutionByIm2Col", "ReplaceDeconvolutionByCol2Im",
                  "ReplaceLinearBySgemm"}

PassFinished == wasm.pc = "idle" /\ wasm.passes > 0

\* C7: in every pass the sub-rules are applied in list order with none
\* skipped; InsertTranspose is applied before every fusion rule; every
\* fusion rule and every lowering rule is applied before
\* UpdateInplaceAttribute; nothing is applied after UpdateInplaceAttribute
\* except DumpGraph, which is applied if and only if DEBUG is set and is
\* then the last rule of the pass.
C7_SubRuleOrder ==
    LET a == wasm.applied
        at(name) == {i \in 1..Len(a) : a[i] = name}
        fusions == {i \in 1..Len(a) : a[i] \in FusionRules}
        lowerings == {i \in 1..Len(a) : a[i] \in LoweringRules}
    IN wasm.pc \in {"idle", "pass"} =>
        /\ Len(a) <= Len(wasm.sub_rules)
        /\ \A i \in 1..Len(a) : a[i] = wasm.sub_rules[i]
        /\ \A i \in fusions : \E j \in at("InsertTranspose") : j < i
        /\ \A i \in fusions : \A j \in at("InsertTranspose") : j < i
        /\ \A i \in fusions \cup lowerings : \A j \in at("UpdateInplaceAttribute") : i < j
        /\ \A j \in at("UpdateInplaceAttribute") : \A i \in (j + 1)..Len(a) :
              a[i] = "DumpGraph"
        /\ at("DumpGraph") # {} => wasm.DEBUG
        /\ PassFinished =>
              /\ Len(a) = Len(wasm.sub_rules)
              /\ Cardinality(at("InsertTranspose")) = 1
              /\ Cardinality(at("UpdateInplaceAttribute")) = 1
              /\ Cardinality(at("MergeSgemmAndElementwiseMul")) = 3
              /\ Cardinality(at("ElementwiseKernelFusion")) = 1
              /\ \A r \in LoweringRules : at(r) # {}
              /\ at("DumpGraph") = (IF wasm.DEBUG THEN {Len(a)} ELSE {})

\* C7 witness: a second pass has finished with DEBUG set, DumpGraph last.
C7_Witness ==
    /\ PassFinished
    /\ wasm.passes >= 2
    /\ wasm.DEBUG
    /\ wasm.applied[Len(wasm.applied)] = "DumpGraph"
    /\ wasm.applied[Len(wasm.applied) - 1] = "UpdateInplaceAttribute"

====
